---- MODULE Spec2Model ----
(***************************************************************************)
(* Sliding-block puzzle solver (solver.py): the PuzzleState operations and *)
(* the breadth-first search of solve_puzzle.                               *)
(*                                                                         *)
(* A board is a sequence of rows, a row a sequence of one-character        *)
(* strings; "." is the empty cell.  Positions are the source's 0-based     *)
(* (row, col) pairs, written <<r, c>>.                                     *)
(***************************************************************************)
EXTENDS Integers, Sequences, FiniteSets, TLC

\* ------------------------------------------------------------------------
\* Bounds of the model
\* ------------------------------------------------------------------------
\* Most pieces on a board of size BoardSize, and on one of size SmallBoardSize.
MaxPieces == 4
SmallMaxPieces == 2

\* The (width, height) of the boards that hold a 2x2 piece, and of the small
\* boards and grids.  is_goal reads columns 1 and 2, so a board is at least
\* 3 wide; a 2x2 piece needs 2 rows.
BoardSize == <<3, 3>>
SmallBoardSize == <<3, 2>>

\* ------------------------------------------------------------------------
\* Characters and Python list indexing
\* ------------------------------------------------------------------------
Alphabet == <<"A", "B", "C", "D", "E", "F", "G", "H", "I", "J", "K", "L", "M",
              "N", "O", "P", "Q", "R", "S", "T", "U", "V", "W", "X", "Y", "Z">>

\* Position of a label character in the character order used by sorted().
Ord(ch) == CHOOSE i \in 1..Len(Alphabet) : Alphabet[i] = ch

\* Python's list index: a negative index counts from the end.
PyIndex(i, n) == IF i < 0 THEN i + n ELSE i

\* list[i] raises IndexError outside -n..n-1.
PyInRange(i, n) == PyIndex(i, n) >= 0 /\ PyIndex(i, n) < n

\* board[r][c] with Python indexing; "IndexError" when either index is out of range.
PyGet(board, r, c) ==
    IF ~PyInRange(r, Len(board)) THEN "IndexError"
    ELSE LET row == board[PyIndex(r, Len(board)) + 1]
         IN  IF ~PyInRange(c, Len(row)) THEN "IndexError"
             ELSE row[PyIndex(c, Len(row)) + 1]

\* board[r][c] = v with Python indexing (the caller has checked the range).
PySet(board, r, c, v) ==
    LET rr == PyIndex(r, Len(board)) + 1
        cc == PyIndex(c, Len(board[rr])) + 1
    IN  [board EXCEPT ![rr][cc] = v]

\* ------------------------------------------------------------------------
\* PuzzleState
\* ------------------------------------------------------------------------
\* PuzzleState.__init__: copies the rows, width is the first row's length.
\* Nothing is validated.
PuzzleState(board) ==
    [board |-> board, width |-> Len(board[1]), height |-> Len(board)]

\* The cells range(height) x range(width) in scan (row-major) order.
RECURSIVE ScanFrom(_, _, _)
ScanFrom(i, w, h) ==
    IF i >= w * h THEN <<>>
    ELSE <<<<i \div w, i % w>>>> \o ScanFrom(i + 1, w, h)

ScanCells(st) == ScanFrom(0, st.width, st.height)

\* get_piece_info()[label]: the positions holding label, in scan order.
PiecePositions(st, label) ==
    SelectSeq(ScanCells(st), LAMBDA p : PyGet(st.board, p[1], p[2]) = label)

\* Keys of get_piece_info() in dict (first-appearance) order.
RECURSIVE FirstSeen(_, _, _)
FirstSeen(st, cells, seen) ==
    IF cells = <<>> THEN <<>>
    ELSE LET ch == PyGet(st.board, Head(cells)[1], Head(cells)[2])
         IN  IF ch = "." \/ ch \in seen
             THEN FirstSeen(st, Tail(cells), seen)
             ELSE <<ch>> \o FirstSeen(st, Tail(cells), seen \cup {ch})

PieceOrder(st) == FirstSeen(st, ScanCells(st), {})

\* Keys of get_piece_info(): the labels on the board.
PieceSet(st) == {PieceOrder(st)[i] : i \in 1..Len(PieceOrder(st))}

\* get_piece_info(): the dict label -> positions, as the sequence of its
\* items <<label, positions>> in dict order.
RECURSIVE PieceItems(_, _)
PieceItems(st, labels) ==
    IF labels = <<>> THEN <<>>
    ELSE <<<<Head(labels), PiecePositions(st, Head(labels))>>>>
         \o PieceItems(st, Tail(labels))

get_piece_info(st) == PieceItems(st, PieceOrder(st))

\* ------------------------------------------------------------------------
\* Sorting (Python's sorted / list.sort on tuples)
\* ------------------------------------------------------------------------
\* (r1, c1) < (r2, c2) as Python compares tuples.
PosLess(p, q) == p[1] < q[1] \/ (p[1] = q[1] /\ p[2] < q[2])

\* Lexicographic order of two tuples of positions; a proper prefix is smaller.
RECURSIVE TupleLess(_, _)
TupleLess(s, t) ==
    IF t = <<>> THEN FALSE
    ELSE IF s = <<>> THEN TRUE
    ELSE IF PosLess(Head(s), Head(t)) THEN TRUE
    ELSE IF PosLess(Head(t), Head(s)) THEN FALSE
    ELSE TupleLess(Tail(s), Tail(t))

\* Insert p into the sorted sequence of positions s.
RECURSIVE InsertPos(_, _)
InsertPos(p, s) ==
    IF s = <<>> THEN <<p>>
    ELSE IF PosLess(p, Head(s)) THEN <<p>> \o s
    ELSE <<Head(s)>> \o InsertPos(p, Tail(s))

\* sorted(positions)
RECURSIVE SortedPositions(_)
SortedPositions(s) ==
    IF s = <<>> THEN <<>>
    ELSE InsertPos(Head(s), SortedPositions(Tail(s)))

\* Insertion by label instead of by positions.
RECURSIVE InsertEntryByLabel(_, _)
InsertEntryByLabel(e, s) ==
    IF s = <<>> THEN <<e>>
    ELSE IF Ord(e[1]) < Ord(Head(s)[1]) THEN <<e>> \o s
    ELSE <<Head(s)>> \o InsertEntryByLabel(e, Tail(s))

\* Insert the entry e = <<label, positions>> into a list sorted by
\* key tuple(sorted(positions)); equal keys keep their order (stable sort).
RECURSIVE InsertEntry(_, _)
InsertEntry(e, s) ==
    IF s = <<>> THEN <<e>>
    ELSE IF TupleLess(SortedPositions(e[2]), SortedPositions(Head(s)[2]))
         THEN <<e>> \o s
    ELSE <<Head(s)>> \o InsertEntry(e, Tail(s))

\* shape_groups[shape].sort(key=lambda x: tuple(sorted(x[1])))
RECURSIVE SortEntries(_)
SortEntries(s) ==
    IF s = <<>> THEN <<>>
    ELSE InsertEntry(s[Len(s)], SortEntries(SubSeq(s, 1, Len(s) - 1)))

\* ------------------------------------------------------------------------
\* get_canonical_board
\* ------------------------------------------------------------------------
MinOf(S) == CHOOSE x \in S : \A y \in S : x <= y
MaxOf(S) == CHOOSE x \in S : \A y \in S : x >= y

\* shape = (width, height) of the bounding box of a piece's positions.
Shape(positions) ==
    LET rs == {positions[i][1] : i \in 1..Len(positions)}
        cs == {positions[i][2] : i \in 1..Len(positions)}
    IN  <<MaxOf(cs) - MinOf(cs) + 1, MaxOf(rs) - MinOf(rs) + 1>>

\* Keys of shape_groups and canonical_labels, in dict order.
ShapeKeys == <<<<2, 2>>, <<1, 2>>, <<2, 1>>, <<1, 1>>>>

\* One label for every piece, whatever its shape.
canonical_labels_one(shape) == <<"A">>

\* One label for the pieces of both two-cell shapes.
canonical_labels_dominoes(shape) ==
    CASE shape = <<2, 2>> -> <<"A">>
      [] shape = <<1, 2>> -> <<"F">>
      [] shape = <<2, 1>> -> <<"F">>
      [] shape = <<1, 1>> -> <<"G", "H", "I", "J">>

canonical_labels(shape) ==
    CASE shape = <<2, 2>> -> <<"A">>
      [] shape = <<1, 2>> -> <<"B", "C", "D", "E">>
      [] shape = <<2, 1>> -> <<"F">>
      [] shape = <<1, 1>> -> <<"G", "H", "I", "J">>

\* shape_groups after the append loop and the sort: for the k-th key of
\* ShapeKeys, the sorted list of the items of that shape.
shape_groups(pieces_info) ==
    LET group(k) == SortEntries(SelectSeq(pieces_info,
                        LAMBDA e : Shape(e[2]) = ShapeKeys[k]))
    IN  <<group(1), group(2), group(3), group(4)>>

\* labels[i % len(labels)]: the labels start over past the end of the list.
LabelAtWrap(labels, i) == labels[(i % Len(labels)) + 1]

\* labels[i] if i < len(labels) else labels[-1], for the 0-based index i.
LabelAt(labels, i) == IF i < Len(labels) THEN labels[i + 1] ELSE labels[Len(labels)]

\* The canonical labels of one sorted group, as items <<label, canonical label>>.
RECURSIVE LabelGroup(_, _, _)
LabelGroup(pieces, labels, i) ==
    IF i >= Len(pieces) THEN <<>>
    ELSE <<<<pieces[i + 1][1], LabelAt(labels, i)>>>>
         \o LabelGroup(pieces, labels, i + 1)

\* original label -> canonical label, over all groups.
CanonicalLabelItems(pieces_info) ==
    LET groups == shape_groups(pieces_info)
    IN  LabelGroup(groups[1], canonical_labels(ShapeKeys[1]), 0)
        \o LabelGroup(groups[2], canonical_labels(ShapeKeys[2]), 0)
        \o LabelGroup(groups[3], canonical_labels(ShapeKeys[3]), 0)
        \o LabelGroup(groups[4], canonical_labels(ShapeKeys[4]), 0)

\* shape_groups[shape] raises KeyError for a shape that is none of the four.
CanonicalRaises(pieces_info) ==
    \E i \in 1..Len(pieces_info) :
        \A k \in 1..Len(ShapeKeys) : Shape(pieces_info[i][2]) # ShapeKeys[k]

\* The list of rows r..h of a w-wide grid whose cell (r, c) is cell[r][c].
RECURSIVE RowFrom(_, _, _)
RowFrom(row, c, w) ==
    IF c > w THEN <<>> ELSE <<row[c]>> \o RowFrom(row, c + 1, w)

RECURSIVE RowsFrom(_, _, _, _)
RowsFrom(cell, r, w, h) ==
    IF r > h THEN <<>> ELSE <<RowFrom(cell[r], 1, w)>> \o RowsFrom(cell, r + 1, w, h)

\* get_canonical_board as a call: exc is "KeyError" or "", value the painted grid.
get_canonical_board_call(st) ==
    LET pieces_info == get_piece_info(st)
        items == CanonicalLabelItems(pieces_info)
        paint == [r \in 1..st.height |-> [c \in 1..st.width |->
            IF st.board[r][c] = "." THEN "."
            ELSE items[CHOOSE i \in 1..Len(items) : items[i][1] = st.board[r][c]][2]]]
    IN  IF CanonicalRaises(pieces_info) THEN [exc |-> "KeyError", value |-> <<>>]
        ELSE [exc |-> "", value |-> RowsFrom(paint, 1, st.width, st.height)]

get_canonical_board(st) == get_canonical_board_call(st).value

\* PuzzleState.__eq__ (and __hash__): equality of canonical boards.
StateEq(s, t) == get_canonical_board(s) = get_canonical_board(t)

\* ------------------------------------------------------------------------
\* is_goal
\* ------------------------------------------------------------------------
\* The goal region one column to the left.
target_positions_left(st) ==
    <<<<st.height - 2, 0>>, <<st.height - 2, 1>>,
      <<st.height - 1, 0>>, <<st.height - 1, 1>>>>

\* target_positions
target_positions(st) ==
    <<<<st.height - 2, 1>>, <<st.height - 2, 2>>,
      <<st.height - 1, 1>>, <<st.height - 1, 2>>>>

\* The 2x2 piece taken to be the piece labelled 'A'.
two_by_two_named_A(st) ==
    IF \E i \in 1..Len(get_piece_info(st)) : get_piece_info(st)[i][1] = "A"
    THEN "A" ELSE ""

\* The first key of piece_counts, in dict order, whose count is 4; "" for None.
two_by_two(st) ==
    LET fours == SelectSeq(get_piece_info(st), LAMBDA e : Len(e[2]) = 4)
    IN  IF fours = <<>> THEN "" ELSE Head(fours)[1]

is_goal(st) ==
    LET piece == two_by_two(st)
    IN  IF piece = "" THEN FALSE
        ELSE \A i \in 1..4 :
                PyGet(st.board, target_positions(st)[i][1], target_positions(st)[i][2])
                    = piece

\* ------------------------------------------------------------------------
\* can_move_piece, move_piece, get_all_moves
\* ------------------------------------------------------------------------
\* directions, in the order of get_all_moves
directions == <<<<-1, 0>>, <<1, 0>>, <<0, -1>>, <<0, 1>>>>

direction_names(d) ==
    CASE d = <<-1, 0>> -> "up"
      [] d = <<1, 0>> -> "down"
      [] d = <<0, -1>> -> "left"
      [] d = <<0, 1>> -> "right"

\* The occupancy test left out: only the bounds are tested.
can_move_piece_bounds_only(st, piece, d) ==
    LET piece_positions == PiecePositions(st, piece)
    IN  \A i \in 1..Len(piece_positions) :
            LET r == piece_positions[i][1] + d[1]
                c == piece_positions[i][2] + d[2]
            IN  ~(r < 0 \/ r >= st.height \/ c < 0 \/ c >= st.width)

\* The test "self.board[r][c] != piece" left out: a target cell must be empty.
can_move_piece_empty_only(st, piece, d) ==
    LET piece_positions == PiecePositions(st, piece)
    IN  \A i \in 1..Len(piece_positions) :
            LET r == piece_positions[i][1] + d[1]
                c == piece_positions[i][2] + d[2]
            IN  /\ ~(r < 0 \/ r >= st.height \/ c < 0 \/ c >= st.width)
                /\ ~(st.board[r + 1][c + 1] # ".")

can_move_piece(st, piece, d) ==
    LET piece_positions == PiecePositions(st, piece)
    IN  \A i \in 1..Len(piece_positions) :
            LET r == piece_positions[i][1] + d[1]
                c == piece_positions[i][2] + d[2]
            IN  /\ ~(r < 0 \/ r >= st.height \/ c < 0 \/ c >= st.width)
                /\ ~(st.board[r + 1][c + 1] # "." /\ st.board[r + 1][c + 1] # piece)

\* copy(): a new state whose rows are copies of the receiver's rows.
copy(st) == PuzzleState(st.board)

\* The first loop of move_piece left out.
ClearNothing(board, positions) == board

\* "for r, c in piece_positions: new_state.board[r][c] = '.'"
RECURSIVE ClearCells(_, _)
ClearCells(board, positions) ==
    IF positions = <<>> THEN board
    ELSE ClearCells(PySet(board, Head(positions)[1], Head(positions)[2], "."),
                    Tail(positions))

\* Some write of the second loop indexes past the end of a list.
SetRaises(board, positions, d) ==
    \E i \in 1..Len(positions) :
        PyGet(board, positions[i][1] + d[1], positions[i][2] + d[2]) = "IndexError"

\* "for r, c in piece_positions: new_state.board[r + dr][c + dc] = piece"
RECURSIVE SetCells(_, _, _, _)
SetCells(board, positions, d, piece) ==
    IF positions = <<>> THEN board
    ELSE SetCells(PySet(board, Head(positions)[1] + d[1], Head(positions)[2] + d[2],
                        piece),
                  Tail(positions), d, piece)

NoState == [board |-> <<>>, width |-> 0, height |-> 0]

\* move_piece writing into the receiver instead of a copy.
move_piece_in_place(st, piece, d) ==
    LET piece_positions == PiecePositions(st, piece)
        cleared == ClearCells(st.board, piece_positions)
    IN  IF SetRaises(cleared, piece_positions, d)
        THEN [exc |-> "IndexError", new_state |-> NoState, self |-> cleared]
        ELSE [exc |-> "",
              new_state |-> [st EXCEPT
                                !.board = SetCells(cleared, piece_positions, d, piece)],
              self |-> SetCells(cleared, piece_positions, d, piece)]

\* move_piece as a call: exc is "IndexError" or "", new_state the returned
\* state, self the receiver's board when the call ends.  All writes go to the
\* copy.
move_piece_call(st, piece, d) ==
    LET piece_positions == PiecePositions(st, piece)
        new0 == copy(st)
        cleared == ClearCells(new0.board, piece_positions)
    IN  IF SetRaises(cleared, piece_positions, d)
        THEN [exc |-> "IndexError", new_state |-> NoState, self |-> st.board]
        ELSE [exc |-> "",
              new_state |-> [new0 EXCEPT
                                !.board = SetCells(cleared, piece_positions, d, piece)],
              self |-> st.board]

move_piece(st, piece, d) == move_piece_call(st, piece, d).new_state

\* Insert a label into a list sorted by character.
RECURSIVE InsertLabel(_, _)
InsertLabel(l, s) ==
    IF s = <<>> THEN <<l>>
    ELSE IF Ord(l) < Ord(Head(s)) THEN <<l>> \o s
    ELSE <<Head(s)>> \o InsertLabel(l, Tail(s))

\* "for piece in pieces.keys()": the labels in dict order, without sorted().
UnsortedLabels(s) == s

\* sorted(pieces.keys())
RECURSIVE SortedLabels(_)
SortedLabels(s) ==
    IF s = <<>> THEN <<>>
    ELSE InsertLabel(Head(s), SortedLabels(Tail(s)))

\* The test "if self.can_move_piece(piece, direction)" left out: move_piece
\* is called for every direction.
RECURSIVE MovesOfPieceUnchecked(_, _, _)
MovesOfPieceUnchecked(st, piece, ds) ==
    IF ds = <<>> THEN <<>>
    ELSE <<<<piece, direction_names(Head(ds)), move_piece(st, piece, Head(ds))>>>>
         \o MovesOfPieceUnchecked(st, piece, Tail(ds))

\* The moves of one piece, in the order of directions.
RECURSIVE MovesOfPiece(_, _, _)
MovesOfPiece(st, piece, ds) ==
    IF ds = <<>> THEN <<>>
    ELSE (IF can_move_piece(st, piece, Head(ds))
          THEN <<<<piece, direction_names(Head(ds)), move_piece(st, piece, Head(ds))>>>>
          ELSE <<>>)
         \o MovesOfPiece(st, piece, Tail(ds))

RECURSIVE MovesOfPieces(_, _)
MovesOfPieces(st, pieces) ==
    IF pieces = <<>> THEN <<>>
    ELSE MovesOfPiece(st, Head(pieces), directions) \o MovesOfPieces(st, Tail(pieces))

get_all_moves(st) == MovesOfPieces(st, SortedLabels(PieceOrder(st)))

\* ------------------------------------------------------------------------
\* Input boards
\* ------------------------------------------------------------------------
\* The piece shapes (width, height) of the puzzle family.
PieceShapes == {<<1, 1>>, <<2, 1>>, <<1, 2>>, <<2, 2>>}

\* Concrete labels handed to the pieces of an input board, in scan order of
\* their top-left cells: one ascending naming, one that is not ascending and
\* disagrees with the canonical letters.
LabelOrders == {<<"A", "B", "C", "D", "E", "F", "G">>,
                <<"Y", "F", "K", "B", "X", "A", "S">>}

\* The cells a piece of shape sh with top-left cell (r, c) covers.
Footprint(r, c, sh) ==
    {<<r + i, c + j>> : i \in 0..(sh[2] - 1), j \in 0..(sh[1] - 1)}

\* All completions of a partly filled w x h grid ("?" = undecided cell):
\* the first undecided cell in scan order stays empty or becomes the top-left
\* cell of a new piece, which takes the next label of labels.
RECURSIVE Fillings(_, _, _, _)
Fillings(board, n, maxn, labels) ==
    LET h == Len(board)
        w == Len(board[1])
        open == {i \in 0..(w * h - 1) : board[(i \div w) + 1][(i % w) + 1] = "?"}
    IN  IF open = {} THEN {board}
        ELSE LET i == MinOf(open)
                 r == i \div w
                 c == i % w
                 fits(sh) == \A p \in Footprint(r, c, sh) :
                                /\ p[1] < h /\ p[2] < w
                                /\ board[p[1] + 1][p[2] + 1] = "?"
                 put(sh, ch) ==
                     LET cell == [rr \in 1..h |-> [cc \in 1..w |->
                             IF <<rr - 1, cc - 1>> \in Footprint(r, c, sh)
                             THEN ch ELSE board[rr][cc]]]
                     IN  RowsFrom(cell, 1, w, h)
             IN  Fillings(put(<<1, 1>>, "."), n, maxn, labels)
                 \cup (IF n >= maxn THEN {}
                       ELSE UNION {Fillings(put(sh, labels[n + 1]), n + 1, maxn, labels) :
                                      sh \in {s \in PieceShapes : fits(s)}})

\* Well-formed w x h boards of at most maxn pieces.
Boards(w, h, maxn) ==
    LET undecided == [r \in 1..h |-> [c \in 1..w |-> "?"]]
    IN  UNION {Fillings(RowsFrom(undecided, 1, w, h), 0, maxn, labels) :
                  labels \in LabelOrders}

\* The boards solve_puzzle is run on: the boards of size BoardSize of at most
\* MaxPieces pieces that hold a 2x2 piece, and every board of size
\* SmallBoardSize of at most SmallMaxPieces pieces.
InitialBoards ==
    {b \in Boards(BoardSize[1], BoardSize[2], MaxPieces) :
        two_by_two(PuzzleState(b)) # ""}
    \cup Boards(SmallBoardSize[1], SmallBoardSize[2], SmallMaxPieces)

\* ------------------------------------------------------------------------
\* solve_puzzle
\* ------------------------------------------------------------------------
VARIABLES
    pc,              \* position in solve_puzzle: "start", "while", "for", "done"
    initial_board,   \* the argument
    initial_state,
    queue,           \* deque of <<state, path>>
    visited,         \* set of PuzzleState, keyed by canonical board
    states_explored,
    current_state,
    path,
    moves,           \* what the for loop has still to iterate over
    result,          \* the return value: kind "list" or "None"
    \* one call of a PuzzleState operation:
    rows,            \* the rows a state is constructed from
    self,            \* the receiver
    op,              \* the operation called last, "" before any
    arg,             \* its arguments
    ret              \* what it returned or raised

solvevars == <<pc, initial_board, initial_state, queue, visited, states_explored,
               current_state, path, moves, result>>
opvars == <<rows, self, op, arg, ret>>
vars == <<solvevars, opvars>>

NoCall == /\ rows = <<>> /\ self = NoState /\ op = "" /\ arg = <<>> /\ ret = <<>>

NoResult == [kind |-> "", moves |-> <<>>]

Init ==
    /\ initial_board \in InitialBoards
    /\ pc = "start"
    /\ initial_state = NoState
    /\ queue = <<>>
    /\ visited = {}
    /\ states_explored = 0
    /\ current_state = NoState
    /\ path = <<>>
    /\ moves = <<>>
    /\ result = NoResult
    /\ NoCall

\* The test "if new_state in visited" never succeeds.
NeverVisited(st, vis) == FALSE

\* "new_state in visited": a set of PuzzleState compares its members by
\* __hash__ and __eq__, that is by canonical board; the set is kept as the
\* set of the canonical boards of its members.
InVisited(st, vis) == get_canonical_board(st) \in vis

AddVisited(st, vis) == vis \cup {get_canonical_board(st)}

\* A new_path that forgets the path so far.
NewPathOnlyLast(p, m) == <<m>>

\* new_path = path + [(piece, direction, new_state)]
NewPath(p, m) == Append(p, m)

\* A deque used as a stack: pop() instead of popleft().
PopRight(q) == [item |-> q[Len(q)], rest |-> SubSeq(q, 1, Len(q) - 1)]

\* queue.popleft()
PopLeft(q) == [item |-> Head(q), rest |-> Tail(q)]

\* Begin without the is_goal test of lines 190-191.
BeginUnchecked ==
    /\ pc = "start"
    /\ initial_state' = PuzzleState(initial_board)
    /\ queue' = <<<<PuzzleState(initial_board), <<>>>>>>
    /\ visited' = AddVisited(PuzzleState(initial_board), {})
    /\ pc' = "while"
    /\ UNCHANGED <<initial_board, states_explored, current_state, path, moves, result>>
    /\ UNCHANGED opvars

\* Lines 183-197: construct the initial state; return [] when it is a goal,
\* else seed the queue and the visited set.
Begin ==
    /\ pc = "start"
    /\ LET st == PuzzleState(initial_board)
       IN  /\ initial_state' = st
           /\ IF is_goal(st)
              THEN /\ result' = [kind |-> "list", moves |-> <<>>]
                   /\ pc' = "done"
                   /\ UNCHANGED <<queue, visited>>
              ELSE /\ queue' = <<<<st, <<>>>>>>
                   /\ visited' = AddVisited(st, {})
                   /\ pc' = "while"
                   /\ UNCHANGED result
    /\ UNCHANGED <<initial_board, states_explored, current_state, path, moves>>
    /\ UNCHANGED opvars

\* Where the for loop continues: its next item, or back to the while test.
AfterMove(rest) == IF rest = <<>> THEN "while" ELSE "for"

\* Lines 201-209: the while test succeeds, popleft, get_all_moves.
Dequeue ==
    /\ pc = "while"
    /\ queue # <<>>
    /\ LET e == PopLeft(queue)
       IN  /\ current_state' = e.item[1]
           /\ path' = e.item[2]
           /\ queue' = e.rest
           /\ moves' = get_all_moves(e.item[1])
           /\ pc' = AfterMove(get_all_moves(e.item[1]))
    /\ states_explored' = states_explored + 1
    /\ UNCHANGED <<initial_board, initial_state, visited, result>>
    /\ UNCHANGED opvars

\* Lines 211-212: the successor's canonical board was visited: continue.
SkipVisited ==
    /\ pc = "for"
    /\ InVisited(Head(moves)[3], visited)
    /\ moves' = Tail(moves)
    /\ pc' = AfterMove(Tail(moves))
    /\ UNCHANGED <<initial_board, initial_state, queue, visited, states_explored,
                   current_state, path, result>>
    /\ UNCHANGED opvars

\* Lines 215-224: a new successor that is a goal: return new_path.
ReturnPath ==
    /\ pc = "for"
    /\ ~InVisited(Head(moves)[3], visited)
    /\ is_goal(Head(moves)[3])
    /\ visited' = AddVisited(Head(moves)[3], visited)
    /\ result' = [kind |-> "list", moves |-> NewPath(path, Head(moves))]
    /\ pc' = "done"
    /\ UNCHANGED <<initial_board, initial_state, queue, states_explored,
                   current_state, path, moves>>
    /\ UNCHANGED opvars

\* queue.appendleft in place of queue.append: the newest board is expanded
\* next.
EnqueueFront ==
    /\ pc = "for"
    /\ ~InVisited(Head(moves)[3], visited)
    /\ ~is_goal(Head(moves)[3])
    /\ visited' = AddVisited(Head(moves)[3], visited)
    /\ queue' = <<<<Head(moves)[3], NewPath(path, Head(moves))>>>> \o queue
    /\ moves' = Tail(moves)
    /\ pc' = AfterMove(Tail(moves))
    /\ UNCHANGED <<initial_board, initial_state, states_explored, current_state,
                   path, result>>
    /\ UNCHANGED opvars

\* Lines 215-227: a new successor that is no goal: enqueue it with new_path.
Enqueue ==
    /\ pc = "for"
    /\ ~InVisited(Head(moves)[3], visited)
    /\ ~is_goal(Head(moves)[3])
    /\ visited' = AddVisited(Head(moves)[3], visited)
    /\ queue' = Append(queue, <<Head(moves)[3], NewPath(path, Head(moves))>>)
    /\ moves' = Tail(moves)
    /\ pc' = AfterMove(Tail(moves))
    /\ UNCHANGED <<initial_board, initial_state, states_explored, current_state,
                   path, result>>
    /\ UNCHANGED opvars

\* "while True" in place of "while queue": popleft on the empty deque raises
\* IndexError and solve_puzzle never returns.
ReturnNoneRaises ==
    /\ pc = "while"
    /\ queue = <<>>
    /\ pc' = "raised"
    /\ UNCHANGED <<initial_board, initial_state, queue, visited, states_explored,
                   current_state, path, moves, result>>
    /\ UNCHANGED opvars

\* Lines 229-230: the queue is empty: return None.
ReturnNone ==
    /\ pc = "while"
    /\ queue = <<>>
    /\ result' = [kind |-> "None", moves |-> <<>>]
    /\ pc' = "done"
    /\ UNCHANGED <<initial_board, initial_state, queue, visited, states_explored,
                   current_state, path, moves>>
    /\ UNCHANGED opvars

Next == Begin \/ Dequeue \/ SkipVisited \/ ReturnPath \/ Enqueue \/ ReturnNone

Spec == Init /\ [][Next]_vars

\* The positions of solve_puzzle at which a statement is about to execute.
Running == {"start", "while", "for"}

\* solve_puzzle is one synchronous call: while it stands at a statement, that
\* statement executes.  This is weak fairness of Next, with ENABLED <<Next>>_vars
\* written out as pc \in Running (C11_Terminates checks that a step exists at
\* every such position).
FairSpec == Spec /\ ([]<>(pc \notin Running) \/ []<><<Next>>_vars)

\* ------------------------------------------------------------------------
\* The PuzzleState operations, one call at a time
\* ------------------------------------------------------------------------
\* Labels of the arbitrary grids.
GridLabels == {".", "A", "B"}

\* Every grid of size SmallBoardSize over GridLabels: pieces of any footprint.
Grids == [1..SmallBoardSize[2] -> [1..SmallBoardSize[1] -> GridLabels]]

\* Rows of unequal length.
RaggedRows ==
    {<<r1, r2>> : r1 \in [1..SmallBoardSize[1] -> {".", "A"}],
                  r2 \in [1..(SmallBoardSize[1] - 1) -> {".", "A"}]}

\* Boards of size SmallBoardSize crowded with 1x1 pieces, more than the 1x1
\* class has canonical labels: the cells take the labels of a naming in scan
\* order, one cell at most staying empty.
CrowdedBoards ==
    LET w == SmallBoardSize[1]
        h == SmallBoardSize[2]
        cell(labels, hole) ==
            [r \in 1..h |-> [c \in 1..w |->
                LET i == (r - 1) * w + c
                IN  IF i = hole THEN "."
                    ELSE IF hole # 0 /\ i > hole THEN labels[i - 1] ELSE labels[i]]]
    IN  {RowsFrom(cell(labels, hole), 1, w, h) :
            labels \in LabelOrders, hole \in 0..(w * h)}

\* The rows a state is constructed from.
OpsInputs == InitialBoards \cup Grids \cup RaggedRows \cup CrowdedBoards

\* All rows have the length of the first.
Rectangular(b) == \A r \in 1..Len(b) : Len(b[r]) = Len(b[1])

\* A label no input board uses.
FreshLabel == "Q"

\* The board with every label l replaced by f[l].
Relabel(board, f) ==
    LET cell == [r \in 1..Len(board) |-> [c \in 1..Len(board[1]) |->
                    IF board[r][c] = "." THEN "." ELSE f[board[r][c]]]]
    IN  RowsFrom(cell, 1, Len(board[1]), Len(board))

\* Renamings of the pieces of st: two labels exchanged, or one label
\* replaced by the fresh one.
Relabelings(st) ==
    LET L == PieceSet(st)
    IN  {[l \in L |-> IF l = a THEN b ELSE IF l = b THEN a ELSE l] :
            a \in L, b \in L \cup {FreshLabel}} 

InitOps ==
    /\ rows \in OpsInputs
    /\ self = NoState
    /\ op = ""
    /\ arg = <<>>
    /\ ret = <<>>
    /\ pc = "idle"
    /\ initial_board = <<>>
    /\ initial_state = NoState
    /\ queue = <<>>
    /\ visited = {}
    /\ states_explored = 0
    /\ current_state = NoState
    /\ path = <<>>
    /\ moves = <<>>
    /\ result = NoResult

\* PuzzleState(board): never raises for a non-empty list of rows.
Construct ==
    /\ op = ""
    /\ self' = PuzzleState(rows)
    /\ op' = "construct"
    /\ ret' = [exc |-> "", state |-> PuzzleState(rows)]
    /\ UNCHANGED <<rows, arg, solvevars>>

\* The calls below are made on states constructed from rectangular grids.
Callable == op = "construct" /\ Rectangular(rows)

CallIsGoal ==
    /\ Callable
    /\ op' = "is_goal"
    /\ ret' = [value |-> is_goal(self)]
    /\ UNCHANGED <<rows, self, arg, solvevars>>

CallGetCanonicalBoard ==
    /\ Callable
    /\ op' = "get_canonical_board"
    /\ ret' = get_canonical_board_call(self)
    /\ UNCHANGED <<rows, self, arg, solvevars>>

\* get_canonical_board of the state and of a relabelled copy of it.
CallCanonicalRelabelled ==
    /\ Callable
    /\ \E f \in Relabelings(self) :
        /\ arg' = f
        /\ ret' = [original |-> get_canonical_board_call(self),
                   relabelled |->
                       get_canonical_board_call(PuzzleState(Relabel(self.board, f)))]
    /\ op' = "relabel"
    /\ UNCHANGED <<rows, self, solvevars>>

\* The offsets can_move_piece is called with: the four directions of
\* get_all_moves, no move, diagonals and two-cell jumps.
Offsets == {<<dr, dc>> : dr \in -1..1, dc \in -1..1} \cup {<<-2, 0>>, <<0, 2>>}

CallCanMovePiece ==
    /\ Callable
    /\ \E piece \in PieceSet(self), d \in Offsets :
        /\ arg' = <<piece, d>>
        /\ ret' = [value |-> can_move_piece(self, piece, d)]
    /\ op' = "can_move_piece"
    /\ UNCHANGED <<rows, self, solvevars>>

\* move_piece, whether or not can_move_piece holds.
CallMovePiece ==
    /\ Callable
    /\ \E piece \in PieceSet(self), i \in 1..Len(directions) :
        /\ arg' = <<piece, directions[i]>>
        /\ ret' = move_piece_call(self, piece, directions[i])
    /\ op' = "move_piece"
    /\ UNCHANGED <<rows, self, solvevars>>

\* After a feasible move: can_move_piece and move_piece in the opposite
\* direction on the state the move returned.
CallMoveBack ==
    /\ op = "move_piece"
    /\ can_move_piece(self, arg[1], arg[2])
    /\ LET back == <<-arg[2][1], -arg[2][2]>>
       IN  ret' = [moved |-> ret.new_state,
                   can |-> can_move_piece(ret.new_state, arg[1], back),
                   call |-> move_piece_call(ret.new_state, arg[1], back)]
    /\ op' = "move_back"
    /\ UNCHANGED <<rows, self, arg, solvevars>>

CallGetAllMoves ==
    /\ Callable
    /\ op' = "get_all_moves"
    /\ ret' = [value |-> get_all_moves(self)]
    /\ UNCHANGED <<rows, self, arg, solvevars>>

\* The boards compared with one another: every well-formed board of size
\* SmallBoardSize of at most SmallMaxPieces pieces, under both namings.
PairBoards == Boards(SmallBoardSize[1], SmallBoardSize[2], SmallMaxPieces)

\* self == other, for a second state constructed from the rows other.
CallEq ==
    /\ Callable
    /\ rows \in PairBoards
    /\ \E other \in PairBoards :
        /\ arg' = other
        /\ ret' = [value |-> StateEq(self, PuzzleState(other))]
    /\ op' = "__eq__"
    /\ UNCHANGED <<rows, self, solvevars>>

NextOps ==
    \/ Construct
    \/ CallIsGoal
    \/ CallGetCanonicalBoard
    \/ CallCanonicalRelabelled
    \/ CallCanMovePiece
    \/ CallMovePiece
    \/ CallMoveBack
    \/ CallGetAllMoves
    \/ CallEq

SpecOps == InitOps /\ [][NextOps]_vars

\* ------------------------------------------------------------------------
\* Properties of solve_puzzle
\* ------------------------------------------------------------------------
\* The direction a direction name stands for.
DirectionOf(name) ==
    directions[CHOOSE i \in 1..Len(directions) : direction_names(directions[i]) = name]

\* The concrete states one legal move away from st.
Successors(st) ==
    {move_piece(st, piece, directions[i]) :
        <<piece, i>> \in {x \in PieceSet(st) \X (1..Len(directions)) :
                            can_move_piece(st, x[1], directions[x[2]])}}

\* The least number of legal moves from the states of frontier, which are n
\* moves from the start, to a state satisfying is_goal, searching concrete
\* boards only; -1 when no such state is reachable.
RECURSIVE GoalDistance(_, _, _)
GoalDistance(frontier, seen, n) ==
    IF \E s \in frontier : is_goal(s) THEN n
    ELSE LET next == (UNION {Successors(s) : s \in frontier}) \ seen
         IN  IF next = {} THEN -1
             ELSE GoalDistance(next, seen \cup next, n + 1)

MinMoves(st) == GoalDistance({st}, {st}, 0)

\* The i-th state of the returned trace, S0 being the initial state.
TraceState(i) == IF i = 0 THEN PuzzleState(initial_board) ELSE result.moves[i][3]

Returned == pc = "done"

\* C1: BFS optimality: when solve_puzzle returns a move list, its length is the
\* least number of legal single-step moves that lead from the initial board
\* to a board satisfying is_goal, counted over concrete boards.
C1_Optimal ==
    (Returned /\ result.kind = "list")
        => Len(result.moves) = MinMoves(PuzzleState(initial_board))

C1_Witness ==
    /\ Returned /\ result.kind = "list" /\ Len(result.moves) >= 4
    /\ \E k \in 1..Len(ShapeKeys) :
          Len(shape_groups(get_piece_info(initial_state))[k]) >= 2
    /\ \E i \in 1..Len(result.moves) :
          get_canonical_board(result.moves[i][3]) # result.moves[i][3].board

\* C2: a returned non-empty move list is a real trace: each move is feasible
\* on the previous board and its board is exactly what move_piece produces;
\* the last board is a goal and no earlier board is.
C2_ValidTrace ==
    (Returned /\ result.kind = "list" /\ result.moves # <<>>)
        => LET n == Len(result.moves)
           IN  /\ \A i \in 1..n :
                    LET m == result.moves[i]
                        d == DirectionOf(m[2])
                    IN  /\ m[1] \in PieceSet(TraceState(i - 1))
                        /\ can_move_piece(TraceState(i - 1), m[1], d)
                        /\ m[3] = move_piece(TraceState(i - 1), m[1], d)
               /\ is_goal(TraceState(n))
               /\ \A i \in 0..(n - 1) : ~is_goal(TraceState(i))

C2_Witness == Returned /\ result.kind = "list" /\ Len(result.moves) >= 3

\* C3: solve_puzzle returns None exactly when no board satisfying is_goal is
\* reachable from the initial board by legal moves.
C3_NoneIffUnreachable ==
    Returned => ((result.kind = "None") <=> (MinMoves(PuzzleState(initial_board)) = -1))

C3_Witness ==
    /\ Returned /\ result.kind = "None"
    /\ two_by_two(initial_state) # ""
    /\ states_explored >= 3

\* C4: on an initial board that satisfies is_goal, solve_puzzle returns the
\* empty move list at once: nothing was dequeued, no successor generated,
\* and neither the queue nor the visited set was touched.
C4_AlreadySolved ==
    (pc # "start" /\ pc # "idle" /\ is_goal(PuzzleState(initial_board)))
        => /\ Returned
           /\ result = [kind |-> "list", moves |-> <<>>]
           /\ states_explored = 0
           /\ queue = <<>> /\ visited = {}
           /\ moves = <<>> /\ current_state = NoState

C4_Witness ==
    /\ Returned /\ result = [kind |-> "list", moves |-> <<>>]
    /\ is_goal(initial_state)

\* ------------------------------------------------------------------------
\* Properties of the PuzzleState operations
\* ------------------------------------------------------------------------
\* The cells of st holding label, as a set of 0-based positions.
CellsOf(st, label) ==
    {p \in (0..(st.height - 1)) \X (0..(st.width - 1)) :
        st.board[p[1] + 1][p[2] + 1] = label}

\* The labels that occupy exactly four cells.
FourCellPieces(st) == {l \in PieceSet(st) : Cardinality(CellsOf(st, l)) = 4}

\* Rows height-2 and height-1, columns 1 and 2.
GoalRegion(st) == ((st.height - 2)..(st.height - 1)) \X (1..2)

\* C5: goal detection: on a board with exactly one 4-cell piece, is_goal is
\* true exactly when that piece's cells are rows height-2 and height-1 of
\* columns 1 and 2; on a board with no 4-cell piece it is false.
C5_GoalDetection ==
    op = "is_goal"
        => /\ FourCellPieces(self) = {} => ret.value = FALSE
           /\ \A l \in PieceSet(self) :
                FourCellPieces(self) = {l}
                    => (ret.value <=> CellsOf(self, l) = GoalRegion(self))

C5_Witness ==
    /\ op = "is_goal" /\ ret.value = TRUE
    /\ Cardinality(PieceSet(self)) >= 3
    /\ self.height = BoardSize[2]

\* C6: move reversibility: after a feasible move of a piece, the opposite
\* move of that piece is feasible on the board the move returned, and it
\* returns a board with the canonical board of the board moved from.
C6_Reversible ==
    op = "move_back"
        => /\ ret.can
           /\ ret.call.exc = ""
           /\ get_canonical_board_call(ret.call.new_state)
                = get_canonical_board_call(self)

C6_Witness ==
    /\ op = "move_back"
    /\ Len(PiecePositions(self, arg[1])) >= 2
    /\ CellsOf(self, arg[1]) \cap CellsOf(ret.moved, arg[1]) # {}
    /\ get_canonical_board_call(self).exc = ""
    /\ get_canonical_board(ret.moved) # get_canonical_board(self)

\* C7: canonical stability: renaming the pieces of a board, each keeping its
\* cells, does not change what get_canonical_board returns, so the renamed
\* board and the board compare equal.
C7_CanonicalStable ==
    op = "relabel"
        => /\ ret.relabelled = ret.original
           /\ StateEq(PuzzleState(Relabel(self.board, arg)), self)

C7_Witness ==
    /\ op = "relabel"
    /\ ret.original.exc = ""
    /\ \E a \in PieceSet(self) :
          /\ arg[a] # a
          /\ arg[a] \in PieceSet(self)
          /\ Shape(PiecePositions(self, a)) = Shape(PiecePositions(self, arg[a]))

\* The cells of S translated by d.
Translated(S, d) == {<<p[1] + d[1], p[2] + d[2]>> : p \in S}

\* C8: effect and frame of a feasible move: the returned board has the
\* dimensions of the source, the piece on exactly its translated cells, the
\* cells it left empty, every other cell as before; the source board is
\* the same after the call.
C8_MoveEffect ==
    (op = "move_piece" /\ can_move_piece(self, arg[1], arg[2]))
        => /\ ret.exc = ""
           /\ ret.new_state.width = self.width
           /\ ret.new_state.height = self.height
           /\ LET old == CellsOf(self, arg[1])
                  new == Translated(old, arg[2])
              IN  \A p \in (0..(self.height - 1)) \X (0..(self.width - 1)) :
                    ret.new_state.board[p[1] + 1][p[2] + 1] =
                        IF p \in new THEN arg[1]
                        ELSE IF p \in old THEN "."
                        ELSE self.board[p[1] + 1][p[2] + 1]
           /\ ret.self = self.board
           /\ self.board = rows

C8_Witness ==
    /\ op = "move_piece" /\ can_move_piece(self, arg[1], arg[2])
    /\ Cardinality(CellsOf(self, arg[1])) = 4
    /\ Cardinality(PieceSet(self)) >= 3

\* Some piece of the rectangular grid b is no solid rectangle of one of the
\* four shapes.
BadFootprint(b) ==
    LET st == PuzzleState(b)
    IN  \E l \in PieceSet(st) :
            \/ Shape(PiecePositions(st, l)) \notin PieceShapes
            \/ Len(PiecePositions(st, l))
                 # Shape(PiecePositions(st, l))[1] * Shape(PiecePositions(st, l))[2]

\* Some shape class of the well-formed grid b has more pieces than labels.
OverBudget(b) ==
    LET groups == shape_groups(get_piece_info(PuzzleState(b)))
    IN  \E k \in 1..Len(ShapeKeys) :
            Len(groups[k]) > Len(canonical_labels(ShapeKeys[k]))

Malformed(b) ==
    IF ~Rectangular(b) THEN TRUE
    ELSE IF BadFootprint(b) THEN TRUE
    ELSE OverBudget(b)

\* C9: constructing a state from malformed rows (unequal lengths, a piece
\* that is no solid rectangle, a shape class over its label budget) fails
\* with MalformedBoard.
C9_MalformedRejected ==
    (op = "construct" /\ Malformed(rows)) => ret.exc = "MalformedBoard"

\* C10: move_piece on a board where can_move_piece is false fails with
\* InvalidMove and returns no board.
C10_InfeasibleMoveRaises ==
    (op = "move_piece" /\ ~can_move_piece(self, arg[1], arg[2]))
        => ret.exc = "InvalidMove"

\* ------------------------------------------------------------------------
\* Termination and the search's invariants
\* ------------------------------------------------------------------------
\* The statement at the current position can execute: the while test goes one
\* way or the other, and the for loop stands at a move whose branch is decided.
StepExists ==
    \/ pc = "start"
    \/ pc = "while"
    \/ pc = "for" /\ moves # <<>>

\* C11: termination: every run of solve_puzzle returns, with a move list or
\* with None, because it never stands at a statement that cannot execute and
\* whenever the queue grows the visited set gains a canonical board it did not
\* hold.
C11_Terminates ==
    /\ <>(pc = "done" /\ result.kind \in {"list", "None"})
    /\ [](pc = "done" \/ (pc \in Running /\ StepExists))
    /\ [][Len(queue') > Len(queue)
            => (visited \subseteq visited' /\ visited' # visited)]_vars

C11_Witness ==
    /\ pc = "done" /\ result.kind = "None"
    /\ Cardinality(visited) >= 4
    /\ states_explored = Cardinality(visited)

\* The cells of the grid (row, column from 0) that hold label on st.
Occupied(st, label) ==
    {<<r, c>> \in (0..(st.height - 1)) \X (0..(st.width - 1)) :
        st.board[r + 1][c + 1] = label}

\* Position p lies inside the grid of st.
InGrid(st, p) == p[1] \in 0..(st.height - 1) /\ p[2] \in 0..(st.width - 1)

\* C12: can_move_piece(L, (dr, dc)) is true exactly when every cell of L,
\* translated by (dr, dc), lies inside the grid and is empty or held by L
\* itself; so a piece with a cell on the top row cannot move up, and one with
\* a cell on the left column cannot move left.
C12_Feasibility ==
    op = "can_move_piece" =>
        LET L == arg[1]
            d == arg[2]
            targets == {<<p[1] + d[1], p[2] + d[2]>> : p \in Occupied(self, L)}
        IN  /\ ret.value =
                   \A t \in targets :
                       /\ InGrid(self, t)
                       /\ self.board[t[1] + 1][t[2] + 1] \in {".", L}
            /\ (d = <<-1, 0>> /\ \E p \in Occupied(self, L) : p[1] = 0)
                   => ~ret.value
            /\ (d = <<0, -1>> /\ \E p \in Occupied(self, L) : p[2] = 0)
                   => ~ret.value

\* A feasible one-step slide of a 2-cell piece onto a cell it holds already.
C12_Witness ==
    /\ op = "can_move_piece"
    /\ ret.value
    /\ arg[2] \in {<<0, 1>>, <<1, 0>>}
    /\ Cardinality(Occupied(self, arg[1])) = 2
    /\ \E p \in Occupied(self, arg[1]) :
           <<p[1] + arg[2][1], p[2] + arg[2][2]>> \in Occupied(self, arg[1])

\* The labels on the grid of st.
LabelsOn(st) ==
    {st.board[r][c] : <<r, c>> \in (1..st.height) \X (1..st.width)} \ {"."}

\* The place of a direction name in the order up, down, left, right.
NameRank(name) ==
    CASE name = "up" -> 1 [] name = "down" -> 2 [] name = "left" -> 3
      [] name = "right" -> 4

\* C13: get_all_moves returns exactly one triple (L, name of d,
\* move_piece(L, d)) for each piece L and direction d with
\* can_move_piece(L, d), ordered by ascending label and, within a label, up,
\* down, left, right.
C13_MovesExactOrdered ==
    op = "get_all_moves" =>
        LET ms == ret.value
            feasible == {<<L, direction_names(directions[i])>> :
                            <<L, i>> \in {x \in LabelsOn(self) \X (1..4) :
                                can_move_piece(self, x[1], directions[x[2]])}}
        IN  /\ {<<ms[i][1], ms[i][2]>> : i \in 1..Len(ms)} = feasible
            /\ \A i \in 1..Len(ms) :
                   ms[i][3] = move_piece(self, ms[i][1], DirectionOf(ms[i][2]))
            /\ \A i, j \in 1..Len(ms) :
                   i < j =>
                       \/ Ord(ms[i][1]) < Ord(ms[j][1])
                       \/ /\ ms[i][1] = ms[j][1]
                          /\ NameRank(ms[i][2]) < NameRank(ms[j][2])

\* A board whose labels are not in ascending order in scan order, with moves
\* of two pieces, one of which moves in two directions.
C13_Witness ==
    /\ op = "get_all_moves"
    /\ Len(ret.value) >= 3
    /\ PieceOrder(self) # SortedLabels(PieceOrder(self))
    /\ \E i \in 1..(Len(ret.value) - 1) :
           /\ ret.value[i][1] = ret.value[i + 1][1]
           /\ ret.value[i][2] # ret.value[i + 1][2]
    /\ \E i \in 1..(Len(ret.value) - 1) : ret.value[i][1] # ret.value[i + 1][1]

\* Width, height and cell count of the piece label on st.
PieceProfile(st, label) ==
    LET cells == Occupied(st, label)
        rs == {p[1] : p \in cells}
        cs == {p[2] : p \in cells}
    IN  <<MaxOf(cs) - MinOf(cs) + 1, MaxOf(rs) - MinOf(rs) + 1, Cardinality(cells)>>

\* The piece label covers one solid rectangle of a shape of the puzzle.
SolidPiece(st, label) ==
    LET cells == Occupied(st, label)
        rs == {p[1] : p \in cells}
        cs == {p[2] : p \in cells}
    IN  /\ cells = (MinOf(rs)..MaxOf(rs)) \X (MinOf(cs)..MaxOf(cs))
        /\ <<PieceProfile(st, label)[1], PieceProfile(st, label)[2]>> \in PieceShapes

\* st has the grid size, the labels, the shape and cell count of each label
\* and the number of empty cells of s0, and every piece is a solid rectangle.
Conserves(s0, st) ==
    /\ st.width = s0.width /\ st.height = s0.height
    /\ LabelsOn(st) = LabelsOn(s0)
    /\ \A l \in LabelsOn(s0) :
           PieceProfile(st, l) = PieceProfile(s0, l) /\ SolidPiece(st, l)
    /\ Cardinality(Occupied(st, ".")) = Cardinality(Occupied(s0, "."))

\* The concrete states reachable from the states of frontier by legal moves.
RECURSIVE ReachableFrom(_, _)
ReachableFrom(frontier, seen) ==
    LET next == (UNION {Successors(s) : s \in frontier}) \ seen
    IN  IF next = {} THEN seen ELSE ReachableFrom(next, seen \cup next)

\* C14: piece conservation: every board reachable from a well-formed initial
\* board by legal moves, every board in the queue, every successor the for
\* loop holds and every board of a returned path has the labels, the shape
\* and cell count of each label and the number of empty cells of the initial
\* board, with each piece one solid rectangle of shape 1x1, 2x1, 1x2 or 2x2
\* (one label per cell: no two pieces overlap).
C14_Conservation ==
    pc \in {"while", "for", "done"} =>
        /\ \A i \in 1..Len(queue) : Conserves(initial_state, queue[i][1])
        /\ \A i \in 1..Len(moves) : Conserves(initial_state, moves[i][3])
        /\ (pc = "done" /\ result.kind = "list") =>
               \A i \in 1..Len(result.moves) :
                   Conserves(initial_state, result.moves[i][3])
        /\ (pc = "while" /\ states_explored = 0) =>
               \A st \in ReachableFrom({initial_state}, {initial_state}) :
                   Conserves(initial_state, st)

\* A queue of moved boards of an initial board that holds a 2x2 piece, a
\* two-cell piece and a one-cell piece.
C14_Witness ==
    /\ pc = "for"
    /\ Len(queue) >= 2
    /\ \A i \in 1..Len(queue) : queue[i][1] # initial_state
    /\ {PieceProfile(initial_state, l)[3] : l \in LabelsOn(initial_state)} = {1, 2, 4}

\* The canonical boards of the successors get_all_moves returns on st.
SuccessorSignatures(st) ==
    {get_canonical_board(get_all_moves(st)[i][3]) : i \in 1..Len(get_all_moves(st))}

\* C15: two well-formed boards with equal canonical boards agree on is_goal
\* and on the set of canonical boards of their get_all_moves successors.
C15_EqualSignaturesInterchangeable ==
    (op = "__eq__" /\ ret.value) =>
        /\ is_goal(self) = is_goal(PuzzleState(arg))
        /\ SuccessorSignatures(self) = SuccessorSignatures(PuzzleState(arg))

\* Two equal goal states of two pieces with different concrete labels, with
\* a successor.
C15_Witness ==
    /\ op = "__eq__" /\ ret.value
    /\ arg # self.board
    /\ is_goal(self)
    /\ Cardinality(LabelsOn(self)) = 2
    /\ SuccessorSignatures(self) # {}

\* The footprints of the pieces of st, each with its shape.
Footprints(st) ==
    {<<<<PieceProfile(st, l)[1], PieceProfile(st, l)[2]>>, Occupied(st, l)>> :
        l \in LabelsOn(st)}

\* C16: two boards of the same size with equal canonical boards have the same
\* piece footprints per shape: they differ by a renaming of pieces only, also
\* when a shape class has more pieces than canonical labels.
C16_NoFalseMerge ==
    (op = "__eq__" /\ ret.value) => Footprints(self) = Footprints(PuzzleState(arg))

\* Two equal states with different concrete labels whose two 2x1 pieces share
\* the one canonical label 'F'.
C16_Witness ==
    /\ op = "__eq__" /\ ret.value
    /\ arg # self.board
    /\ Cardinality({l \in LabelsOn(self) :
            <<PieceProfile(self, l)[1], PieceProfile(self, l)[2]>> = <<2, 1>>}) = 2

\* The canonical boards of the boards in the queue q.
QueueSignatures(q) == {get_canonical_board(q[i][1]) : i \in 1..Len(q)}

\* C17: visited-set discipline: the canonical board of every queue entry is
\* in visited; a board is enqueued only when its canonical board is not yet in
\* visited, and visited then gains it and never loses a member, so the boards
\* ever enqueued (the initial one included) have pairwise different canonical
\* boards, as many as visited holds while the search runs; no queue entry
\* satisfies is_goal.
C17_VisitedDiscipline ==
    /\ [](pc \in {"while", "for"} =>
            /\ QueueSignatures(queue) \subseteq visited
            /\ Cardinality(QueueSignatures(queue)) = Len(queue)
            /\ \A i \in 1..Len(queue) : ~is_goal(queue[i][1])
            /\ states_explored + Len(queue) = Cardinality(visited))
    /\ [][/\ visited \subseteq visited'
          /\ Len(queue') > Len(queue) =>
                LET new == queue'[Len(queue')][1]
                IN  /\ Len(queue') = Len(queue) + 1
                    /\ get_canonical_board(new) \notin visited
                    /\ visited' = visited \cup {get_canonical_board(new)}]_vars

\* The for loop stands at a successor whose canonical board was visited
\* before, with several boards waiting in the queue.
C17_Witness ==
    /\ pc = "for"
    /\ InVisited(Head(moves)[3], visited)
    /\ get_canonical_board(Head(moves)[3]) # get_canonical_board(initial_state)
    /\ Len(queue) >= 3
    /\ states_explored >= 3

\* The least number of legal moves from the states of frontier, which are n
\* moves from the start, to a concrete state whose canonical board is sig;
\* -1 when there is none.
RECURSIVE SignatureDistance(_, _, _, _)
SignatureDistance(frontier, seen, n, sig) ==
    IF \E s \in frontier : get_canonical_board(s) = sig THEN n
    ELSE LET next == (UNION {Successors(s) : s \in frontier}) \ seen
         IN  IF next = {} THEN -1
             ELSE SignatureDistance(next, seen \cup next, n + 1, sig)

\* C18: BFS level order: the path lengths of the queue entries never decrease
\* from front to back and the last is at most one more than the first; the
\* initial entry has the empty path, and the path of every entry appended has
\* the least number of legal moves that lead from the initial board to a
\* board with that entry's canonical board.
C18_LevelOrder ==
    /\ [](pc \in {"while", "for"} =>
            /\ \A i \in 1..(Len(queue) - 1) : Len(queue[i][2]) <= Len(queue[i + 1][2])
            /\ queue # <<>> => Len(queue[Len(queue)][2]) <= Len(queue[1][2]) + 1
            /\ (states_explored = 0 /\ queue # <<>>) =>
                   queue = <<<<initial_state, <<>>>>>>)
    /\ [][Len(queue') > Len(queue) =>
            LET new == queue'[Len(queue')]
            IN  Len(new[2]) =
                    SignatureDistance({initial_state'}, {initial_state'}, 0,
                                      get_canonical_board(new[1]))]_vars

\* A queue that holds boards of two levels, the deeper three moves away.
C18_Witness ==
    /\ pc = "for"
    /\ Len(queue) >= 3
    /\ Len(queue[1][2]) = 2
    /\ Len(queue[Len(queue)][2]) = 3

\* Every cell of label on st, translated by d, lies inside the grid and is
\* empty or held by label.
Feasible(st, label, d) ==
    \A p \in Occupied(st, label) :
        /\ InGrid(st, <<p[1] + d[1], p[2] + d[2]>>)
        /\ st.board[p[1] + d[1] + 1][p[2] + d[2] + 1] \in {".", label}

\* The move m was made by move_piece on st, where it was feasible, and
\* without an exception.
FeasibleMove(st, m) ==
    /\ m[1] \in LabelsOn(st)
    /\ Feasible(st, m[1], DirectionOf(m[2]))
    /\ move_piece_call(st, m[1], DirectionOf(m[2])).exc = ""
    /\ m[3] = move_piece_call(st, m[1], DirectionOf(m[2])).new_state

\* C19: the search never attempts an infeasible move: every successor the
\* for loop holds was made by move_piece from current_state with a label and
\* a direction for which the move is feasible there; current_state is the
\* board its path leads to; and every entry appended to the queue extends
\* that path by one such move, so no board in the queue or in a path was
\* made by writing outside the grid or over another piece.
C19_OnlyFeasibleMoves ==
    /\ [](pc = "for" =>
            /\ \A i \in 1..Len(moves) : FeasibleMove(current_state, moves[i])
            /\ current_state =
                   IF path = <<>> THEN initial_state ELSE path[Len(path)][3])
    /\ [][(pc = "for" /\ Len(queue') > Len(queue)) =>
            LET new == queue'[Len(queue')]
            IN  /\ new[2] = Append(path, Head(moves))
                /\ new[1] = Head(moves)[3]
                /\ FeasibleMove(current_state, Head(moves))]_vars
    /\ []((pc = "done" /\ result.kind = "list" /\ result.moves # <<>>) =>
            /\ result.moves = Append(path, Head(moves))
            /\ FeasibleMove(current_state, Head(moves)))

\* The for loop holds successors of a board where some piece has a
\* direction in which it cannot move, two moves into the search.
C19_Witness ==
    /\ pc = "for"
    /\ Len(path) >= 2
    /\ Len(moves) >= 2
    /\ \E l \in LabelsOn(current_state), i \in 1..4 :
           ~Feasible(current_state, l, directions[i])

\* The canonical labels of the shape class (width, height), as the
\* specification lists them.
ClassLabels(shape) ==
    CASE shape = <<2, 2>> -> <<"A">>
      [] shape = <<1, 2>> -> <<"B", "C", "D", "E">>
      [] shape = <<2, 1>> -> <<"F">>
      [] shape = <<1, 1>> -> <<"G", "H", "I", "J">>

\* The shape class of the piece label on st: its bounding box.
ClassOf(st, label) == <<PieceProfile(st, label)[1], PieceProfile(st, label)[2]>>

\* The first cell of label on st in row-major order, as a number: the sorted
\* cell lists of two pieces compare as their first cells do.
FirstCell(st, label) == MinOf({p[1] * st.width + p[2] : p \in Occupied(st, label)})

\* The canonical label the piece label of st is to receive: the label at its
\* rank among the pieces of its class, the last label past the end.
ExpectedLabel(st, label) ==
    LET before == {l \in LabelsOn(st) :
                      /\ ClassOf(st, l) = ClassOf(st, label)
                      /\ FirstCell(st, l) < FirstCell(st, label)}
        labels == ClassLabels(ClassOf(st, label))
    IN  IF Cardinality(before) < Len(labels) THEN labels[Cardinality(before) + 1]
        ELSE labels[Len(labels)]

\* C20: get_canonical_board returns a grid of the board's size with the same
\* empty cells in which every piece carries the label of its rank within its
\* shape class ('A'; 'B'..'E' for width 1, height 2; 'F'; 'G'..'J'), ranked by
\* sorted cell list, a piece beyond the class's labels carrying the last one;
\* it raises nothing on a well-formed board and leaves the board as it was.
C20_CanonicalLabels ==
    op = "get_canonical_board" =>
        /\ (\A l \in LabelsOn(self) : SolidPiece(self, l)) => ret.exc = ""
        /\ ret.exc = "" =>
               /\ Len(ret.value) = self.height
               /\ \A r \in 1..self.height :
                      /\ Len(ret.value[r]) = self.width
                      /\ \A c \in 1..self.width :
                             ret.value[r][c] =
                                 IF self.board[r][c] = "." THEN "."
                                 ELSE ExpectedLabel(self, self.board[r][c])
        /\ self.board = rows

\* A board with more 1x1 pieces than 'G'..'J', named out of order.
C20_Witness ==
    /\ op = "get_canonical_board"
    /\ ret.exc = ""
    /\ Cardinality({l \in LabelsOn(self) : ClassOf(self, l) = <<1, 1>>}) >= 5
    /\ PieceOrder(self) # SortedLabels(PieceOrder(self))
====
